---------------------------- MODULE Spec2Model ----------------------------
(***************************************************************************)
(* Channel adapters (src/src/channel.rs) and ECU reset operations          *)
(* (src/src/uds/ecu_reset.rs) of ecu_diagnostics.                          *)
(*                                                                         *)
(* Spec        : threads sharing one channel through Arc<Mutex<T>>         *)
(* SpecForward : one caller driving T directly, through Box<T> and through *)
(*               Arc<Mutex<T>> in lock step                                *)
(* SpecReset   : the UDS ECUReset operations                               *)
(* SpecFrame   : CanFrame construction and mutation                        *)
(***************************************************************************)
EXTENDS Integers, Sequences, FiniteSets, TLC

VARIABLES
    \* ---- shared channel (Spec) ----
    kind,       \* which capability T implements: "isotp" or "can"
    chan0,      \* state of T when the threads start
    chan,       \* state of the underlying implementation T
    holder,     \* thread holding the Mutex, 0 when free
    poisoned,   \* Mutex poison flag
    pc,         \* per thread: position inside the adapter method
    outer,      \* per thread: the call the caller made
    cur,        \* per thread: the adapter method being executed
    res,        \* per thread: result of the adapter method being executed
    sub,        \* per thread: adapter methods the current call has made, with results
    ret,        \* per thread: what the last completed call returned to the caller
    invoked,    \* per thread: did the current adapter method reach T
    between,    \* per thread: inside read_write_bytes, write done, read not yet done
    intervened, \* per thread: another caller's write/read reached T while `between`
    hist,       \* completed calls, in completion order
    ncalls,     \* calls started so far
    \* ---- forwarding (SpecForward) ----
    ownRW,      \* does T supply its own read_write_bytes
    fchan,      \* T's state under each handle: direct, box, arc
    ftrace,     \* T's methods invoked by the last call, per handle
    fres,       \* result of the last call, per handle
    fcall,      \* the last call
    fpre,       \* T's state under each handle before the last call
    fopened,    \* per handle: open() has returned Ok and close() was not called since
    fwasOpened, \* fopened before the last call
    \* ---- ECU reset (SpecReset) ----
    sent,       \* requests handed to the channel, in order
    lastOp,     \* the reset operation last invoked
    exec,       \* what command execution produced for it
    result,     \* what the operation returned
    wire,       \* last ResetType converted, and its wire byte
    \* ---- CAN frame (SpecFrame) ----
    frame,      \* the CanFrame
    lastData,   \* the most recent data input
    frameOp,    \* the operation last applied to the frame
    prevFrame,  \* what the claims need of the frame before the last operation
    isExt       \* the is_ext argument of the CanFrame::new that made the frame

sharedVars  == <<kind, chan0, chan, holder, poisoned, pc, outer, cur, res, sub, ret,
                 invoked, between, intervened, hist, ncalls>>
forwardVars == <<ownRW, fchan, ftrace, fres, fcall, fpre, fopened, fwasOpened>>
resetVars   == <<sent, lastOp, exec, result, wire>>
frameVars   == <<frame, lastData, frameOp, prevFrame, isExt>>
vars        == <<sharedVars, forwardVars, resetVars, frameVars>>

(***************************************************************************)
(* Bounds                                                                  *)
(***************************************************************************)
MaxCalls   == 2
MaxRx      == 2

Threads == {1, 2}

(***************************************************************************)
(* ChannelResult<T> and ChannelError                                       *)
(***************************************************************************)
ChannelErrorVariants ==
    {"IOError", "WriteTimeout", "ReadTimeout", "BufferEmpty", "BufferFull",
     "UnsupportedRequest", "InterfaceNotOpen", "HardwareError", "NotOpen",
     "ConfigurationError"}

\* the ChannelError that From<PoisonError<_>> for ChannelError yields; which
\* variant it is is not decided here
FromPoisonError == "from(PoisonError)"

Ok(v)  == [ok |-> TRUE,  err |-> "",  val |-> v]
Err(e) == [ok |-> FALSE, err |-> e,   val |-> <<>>]
Unit   == <<>>
NoRes  == [ok |-> FALSE, err |-> "none", val |-> <<>>]
Panic  == [ok |-> FALSE, err |-> "panic", val |-> <<>>]

Call(op, args) == [op |-> op, args |-> args]
NoCall == Call("none", <<>>)

(***************************************************************************)
(* Inputs                                                                  *)
(***************************************************************************)
SendIds   == {2016}
RecvIds   == {2024, 2025}
RWTimeouts == {<<10, 0>>, <<0, 10>>}
Addrs     == {2016}
Bufs      == {<<17, 1>>, <<62>>}
Timeouts  == {0, 10}
IsoCfgs   == {<<8, 20>>}
Packets   == {<<1>>, <<2, 3>>}
Maxes     == {1, 2}
CanCfgs   == {<<500000, FALSE>>}


(***************************************************************************)
(* The underlying implementation T: a channel that follows the lifecycle   *)
(* Closed -> Configured -> Open -> Closed.  Its peer answers every         *)
(* request written to it; answers queue in rx until read.                  *)
(***************************************************************************)
InitChan == [open |-> FALSE, ids |-> <<>>, cfg |-> <<>>, rx |-> <<>>]

\* states T can be in when the threads start: as constructed, or configured
\* and opened by the owner before it was shared
StartChans(k) ==
    {InitChan,
     IF k = "isotp"
     THEN [open |-> TRUE, ids |-> <<2016, 2024>>, cfg |-> <<>>, rx |-> <<>>]
     ELSE [open |-> TRUE, ids |-> <<>>, cfg |-> <<500000, FALSE>>, rx |-> <<>>]}

\* positive response of the peer: service id + 0x40, parameters echoed
Response(buf) == <<(Head(buf) + 64) % 256>> \o Tail(buf)

Take(s, n) == SubSeq(s, 1, IF n < Len(s) THEN n ELSE Len(s))
Drop(s, n) == SubSeq(s, (IF n < Len(s) THEN n ELSE Len(s)) + 1, Len(s))

T_open(ch) ==
    IF (kind = "isotp" /\ ch.ids = <<>>) \/ (kind = "can" /\ ch.cfg = <<>>)
    THEN [chan |-> ch, res |-> Err("ConfigurationError")]
    ELSE [chan |-> [ch EXCEPT !.open = TRUE], res |-> Ok(Unit)]

T_close(ch) ==
    [chan |-> [ch EXCEPT !.open = FALSE, !.rx = <<>>], res |-> Ok(Unit)]

T_set_ids(ch, send, recv) ==
    IF ch.open
    THEN [chan |-> ch, res |-> Err("ConfigurationError")]
    ELSE [chan |-> [ch EXCEPT !.ids = <<send, recv>>], res |-> Ok(Unit)]

T_set_cfg(ch, cfg) ==
    IF ch.open
    THEN [chan |-> ch, res |-> Err("ConfigurationError")]
    ELSE [chan |-> [ch EXCEPT !.cfg = cfg], res |-> Ok(Unit)]

T_read_bytes(ch, timeout_ms) ==
    IF ~ch.open THEN [chan |-> ch, res |-> Err("InterfaceNotOpen")]
    ELSE IF ch.rx = <<>>
    THEN [chan |-> ch,
          res |-> Err(IF timeout_ms = 0 THEN "BufferEmpty" ELSE "ReadTimeout")]
    ELSE [chan |-> [ch EXCEPT !.rx = Tail(@)], res |-> Ok(Head(ch.rx))]

T_write_bytes(ch, addr, buffer, timeout_ms, oc) ==
    IF ~ch.open THEN [chan |-> ch, res |-> Err("InterfaceNotOpen")]
    ELSE IF Len(ch.rx) >= MaxRx THEN [chan |-> ch, res |-> Err("BufferFull")]
    ELSE IF oc = "fail" /\ timeout_ms # 0
    THEN [chan |-> ch, res |-> Err("WriteTimeout")]
    ELSE [chan |-> [ch EXCEPT !.rx = Append(@, Response(buffer))],
          res |-> Ok(Unit)]

\* T's own read_write_bytes, when it supplies one: the request and its
\* answer as one exchange, stale answers discarded first
T_read_write_bytes(ch, addr, buffer, write_timeout_ms, read_timeout_ms, oc) ==
    LET w == T_write_bytes([ch EXCEPT !.rx = <<>>], addr, buffer,
                           write_timeout_ms, oc)
    IN  IF ~ch.open THEN [chan |-> ch, res |-> Err("InterfaceNotOpen")]
        ELSE IF ~w.res.ok THEN w
        ELSE T_read_bytes(w.chan, read_timeout_ms)

T_read_packets(ch, max, timeout_ms) ==
    IF ~ch.open THEN [chan |-> ch, res |-> Err("NotOpen")]
    ELSE IF ch.rx = <<>> /\ timeout_ms # 0
    THEN [chan |-> ch, res |-> Err("ReadTimeout")]
    ELSE [chan |-> [ch EXCEPT !.rx = Drop(@, max)], res |-> Ok(Take(ch.rx, max))]

T_write_packets(ch, packets, timeout_ms, oc) ==
    IF ~ch.open THEN [chan |-> ch, res |-> Err("NotOpen")]
    ELSE IF Len(ch.rx) + Len(packets) > MaxRx
    THEN [chan |-> ch, res |-> Err("BufferFull")]
    ELSE IF oc = "fail" /\ timeout_ms # 0
    THEN [chan |-> ch, res |-> Err("WriteTimeout")]
    ELSE [chan |-> [ch EXCEPT !.rx = @ \o packets], res |-> Ok(Unit)]

T_clear_rx_buffer(ch) == [chan |-> [ch EXCEPT !.rx = <<>>], res |-> Ok(Unit)]
T_clear_tx_buffer(ch) == [chan |-> ch, res |-> Ok(Unit)]

\* one trait method of T, dispatched by name
TExec(ch, c, oc) ==
    LET a == c.args IN
    CASE c.op = "open"             -> T_open(ch)
      [] c.op = "close"            -> T_close(ch)
      [] c.op = "set_ids"          -> T_set_ids(ch, a[1], a[2])
      [] c.op = "set_iso_tp_cfg"   -> T_set_cfg(ch, a[1])
      [] c.op = "set_can_cfg"      -> T_set_cfg(ch, a)
      [] c.op = "read_bytes"       -> T_read_bytes(ch, a[1])
      [] c.op = "write_bytes"      -> T_write_bytes(ch, a[1], a[2], a[3], oc)
      [] c.op = "read_write_bytes" ->
             T_read_write_bytes(ch, a[1], a[2], a[3], a[4], oc)
      [] c.op = "read_packets"     -> T_read_packets(ch, a[1], a[2])
      [] c.op = "write_packets"    -> T_write_packets(ch, a[1], a[2], oc)
      [] c.op = "clear_rx_buffer"  -> T_clear_rx_buffer(ch)
      [] c.op = "clear_tx_buffer"  -> T_clear_tx_buffer(ch)

\* outcomes of the transport the caller does not control: a write that
\* waits for completion (timeout_ms # 0) may time out
WriteTimeoutOf(c) ==
    CASE c.op \in {"write_bytes", "read_write_bytes"} -> c.args[3]
      [] c.op = "write_packets"                        -> c.args[2]
      [] OTHER                                         -> 0

Outcomes(c) == IF WriteTimeoutOf(c) # 0 THEN {"ok", "fail"} ELSE {"ok"}

ConfigOps == {"set_ids", "set_iso_tp_cfg", "set_can_cfg"}
IoOps     == {"read_bytes", "write_bytes", "read_write_bytes",
              "read_packets", "write_packets"}

(***************************************************************************)
(* PayloadChannel::read_write_bytes, the provided method: what it does     *)
(* next, given the calls on self it has completed so far.                  *)
(***************************************************************************)
\* a read_write_bytes that reads whatever the write returned
RWStep_IgnoresWriteError(args, done) ==
    IF done = <<>>
    THEN [fin |-> FALSE, ret |-> NoRes,
          next |-> Call("write_bytes", <<args[1], args[2], args[3]>>)]
    ELSE IF Len(done) = 1
    THEN [fin |-> FALSE, ret |-> NoRes, next |-> Call("read_bytes", <<args[4]>>)]
    ELSE [fin |-> TRUE, ret |-> done[Len(done)].res, next |-> NoCall]

RWStep(args, done) ==
    IF done = <<>>
    THEN [fin |-> FALSE, ret |-> NoRes,
          next |-> Call("write_bytes", <<args[1], args[2], args[3]>>)]
    ELSE IF Len(done) = 1 /\ done[1].res.ok
    THEN [fin |-> FALSE, ret |-> NoRes, next |-> Call("read_bytes", <<args[4]>>)]
    ELSE [fin |-> TRUE, ret |-> done[Len(done)].res, next |-> NoCall]

(***************************************************************************)
(* impl ... for Arc<Mutex<T>>:  T::op(self.lock()?.borrow_mut(), args)     *)
(***************************************************************************)
\* an adapter that reaches T without waiting for the Mutex
LockAvailable_NoWait == TRUE

\* lock() blocks until the Mutex is free
LockAvailable == holder = 0

\* an adapter that takes the guard out of the PoisonError and goes on
LockFails_Recovered == FALSE

\* lock() returns Err(PoisonError) when an earlier holder panicked
LockFails == poisoned

\* an adapter that keeps the guard when T returned an error
HolderAfterDrop_LeakOnErr(t, r) == IF r.ok THEN 0 ELSE t

\* the temporary guard is dropped when the method's expression ends
HolderAfterDrop(t, r) == 0

\* the method returns T's result as it is
ArcForward(r) == r

\* first adapter method a caller's call runs
FirstMethod(c) ==
    IF c.op = "read_write_bytes" THEN RWStep(c.args, <<>>).next ELSE c

Quiescent == \A t \in Threads : pc[t] \in {"idle", "dead"}

Begin(t, c) ==
    /\ pc[t] = "idle"
    /\ ncalls < MaxCalls
    /\ ncalls' = ncalls + 1
    /\ outer' = [outer EXCEPT ![t] = c]
    /\ cur' = [cur EXCEPT ![t] = FirstMethod(c)]
    /\ sub' = [sub EXCEPT ![t] = <<>>]
    /\ res' = [res EXCEPT ![t] = NoRes]
    /\ invoked' = [invoked EXCEPT ![t] = FALSE]
    /\ pc' = [pc EXCEPT ![t] = "lock"]
    /\ UNCHANGED <<kind, chan0, chan, holder, poisoned, ret, between, intervened, hist>>

\* self.lock()?
Lock(t) ==
    /\ pc[t] = "lock"
    /\ LockAvailable
    /\ holder' = t
    /\ IF LockFails
       THEN /\ res' = [res EXCEPT ![t] = Err(FromPoisonError)]
            /\ pc' = [pc EXCEPT ![t] = "unlock"]
       ELSE /\ pc' = [pc EXCEPT ![t] = "exec"]
            /\ UNCHANGED res
    /\ UNCHANGED <<kind, chan0, chan, poisoned, outer, cur, sub, ret, invoked,
                   between, intervened, hist, ncalls>>

TouchesData(c) == c.op \in {"write_bytes", "read_bytes"}

\* T::op(guard, args) runs to its end
RunT(t) ==
    /\ pc[t] = "exec"
    /\ \E oc \in Outcomes(cur[t]) :
         LET r == TExec(chan, cur[t], oc) IN
         /\ chan' = r.chan
         /\ res' = [res EXCEPT ![t] = r.res]
         /\ between' = [between EXCEPT ![t] =
                outer[t].op = "read_write_bytes" /\ cur[t].op = "write_bytes"
                /\ r.res.ok]
    /\ invoked' = [invoked EXCEPT ![t] = TRUE]
    /\ intervened' = [u \in Threads |->
            IF u = t THEN FALSE
            ELSE intervened[u] \/ (between[u] /\ TouchesData(cur[t]))]
    /\ pc' = [pc EXCEPT ![t] = "unlock"]
    /\ UNCHANGED <<kind, chan0, holder, poisoned, outer, cur, sub, ret, hist, ncalls>>

\* T::op panics: unwinding drops the guard, which poisons the Mutex
PanicT(t) ==
    /\ pc[t] = "exec"
    /\ holder' = 0
    /\ poisoned' = TRUE
    /\ pc' = [pc EXCEPT ![t] = "dead"]
    /\ res' = [res EXCEPT ![t] = Panic]
    /\ between' = [between EXCEPT ![t] = FALSE]
    /\ hist' = Append(hist, [t |-> t, call |-> outer[t], res |-> Panic])
    /\ UNCHANGED <<kind, chan0, chan, outer, cur, sub, ret, invoked, intervened, ncalls>>

\* the guard is dropped
Unlock(t) ==
    /\ pc[t] = "unlock"
    /\ holder' = HolderAfterDrop(t, res[t])
    /\ pc' = [pc EXCEPT ![t] = "ret"]
    /\ UNCHANGED <<kind, chan0, chan, poisoned, outer, cur, res, sub, ret, invoked,
                   between, intervened, hist, ncalls>>

\* the adapter method returns; read_write_bytes goes on or returns
Return(t) ==
    /\ pc[t] = "ret"
    /\ LET r    == ArcForward(res[t])
           done == Append(sub[t], [call |-> cur[t], res |-> r])
           step == IF outer[t].op = "read_write_bytes"
                   THEN RWStep(outer[t].args, done)
                   ELSE [fin |-> TRUE, ret |-> r, next |-> NoCall]
       IN  /\ sub' = [sub EXCEPT ![t] = done]
           /\ IF step.fin
              THEN /\ ret' = [ret EXCEPT ![t] = step.ret]
                   /\ pc' = [pc EXCEPT ![t] = "idle"]
                   /\ hist' = Append(hist, [t |-> t, call |-> outer[t],
                                            res |-> step.ret])
                   /\ UNCHANGED <<cur, invoked>>
              ELSE /\ cur' = [cur EXCEPT ![t] = step.next]
                   /\ invoked' = [invoked EXCEPT ![t] = FALSE]
                   /\ pc' = [pc EXCEPT ![t] = "lock"]
                   /\ UNCHANGED <<ret, hist>>
    /\ UNCHANGED <<kind, chan0, chan, holder, poisoned, outer, res, between,
                   intervened, ncalls>>

\* the calls a caller can make on a channel of this kind
CallOpen(t)     == Begin(t, Call("open", <<>>))
CallClose(t)    == Begin(t, Call("close", <<>>))
CallClearRx(t)  == Begin(t, Call("clear_rx_buffer", <<>>))
CallClearTx(t)  == Begin(t, Call("clear_tx_buffer", <<>>))
CallSetIds(t)   == /\ kind = "isotp"
                   /\ \E s \in SendIds, r \in RecvIds :
                        Begin(t, Call("set_ids", <<s, r>>))
CallSetIsoCfg(t) == /\ kind = "isotp"
                    /\ \E c \in IsoCfgs : Begin(t, Call("set_iso_tp_cfg", <<c>>))
CallRead(t)     == /\ kind = "isotp"
                   /\ \E to \in Timeouts : Begin(t, Call("read_bytes", <<to>>))
CallWrite(t)    == /\ kind = "isotp"
                   /\ \E a \in Addrs, b \in Bufs, to \in Timeouts :
                        Begin(t, Call("write_bytes", <<a, b, to>>))
CallReadWrite(t) == /\ kind = "isotp"
                    /\ \E a \in Addrs, b \in Bufs, to \in RWTimeouts :
                         Begin(t, Call("read_write_bytes", <<a, b, to[1], to[2]>>))
CallSetCanCfg(t) == /\ kind = "can"
                    /\ \E c \in CanCfgs : Begin(t, Call("set_can_cfg", c))
CallReadPackets(t) == /\ kind = "can"
                      /\ \E m \in Maxes, to \in Timeouts :
                           Begin(t, Call("read_packets", <<m, to>>))
CallWritePackets(t) == /\ kind = "can"
                       /\ \E p \in Packets, to \in Timeouts :
                            Begin(t, Call("write_packets", <<p, to>>))

SharedNext ==
    \E t \in Threads :
        \/ CallOpen(t) \/ CallClose(t) \/ CallClearRx(t) \/ CallClearTx(t)
        \/ CallSetIds(t) \/ CallSetIsoCfg(t) \/ CallRead(t) \/ CallWrite(t)
        \/ CallReadWrite(t) \/ CallSetCanCfg(t) \/ CallReadPackets(t)
        \/ CallWritePackets(t)
        \/ Lock(t) \/ RunT(t) \/ PanicT(t) \/ Unlock(t) \/ Return(t)

SharedInit ==
    /\ kind \in {"isotp", "can"}
    /\ chan0 \in StartChans(kind)
    /\ chan = chan0
    /\ holder = 0
    /\ poisoned = FALSE
    /\ pc = [t \in Threads |-> "idle"]
    /\ outer = [t \in Threads |-> NoCall]
    /\ cur = [t \in Threads |-> NoCall]
    /\ res = [t \in Threads |-> NoRes]
    /\ sub = [t \in Threads |-> <<>>]
    /\ ret = [t \in Threads |-> NoRes]
    /\ invoked = [t \in Threads |-> FALSE]
    /\ between = [t \in Threads |-> FALSE]
    /\ intervened = [t \in Threads |-> FALSE]
    /\ hist = <<>>
    /\ ncalls = 0

ForwardIdle ==
    /\ ownRW = FALSE /\ fchan = <<>> /\ ftrace = <<>> /\ fres = <<>>
    /\ fcall = NoCall /\ fpre = <<>> /\ fopened = <<>> /\ fwasOpened = <<>>
ResetIdle ==
    /\ sent = <<>> /\ lastOp = "none" /\ exec = <<>> /\ result = <<>>
    /\ wire = <<>>
FrameIdle ==
    /\ frame = <<>> /\ lastData = <<>> /\ frameOp = "none" /\ prevFrame = <<>>
    /\ isExt = FALSE

SharedIdle ==
    /\ kind = "isotp" /\ chan0 = InitChan /\ chan = InitChan
    /\ holder = 0 /\ poisoned = FALSE
    /\ pc = <<>> /\ outer = <<>> /\ cur = <<>> /\ res = <<>> /\ sub = <<>>
    /\ ret = <<>> /\ invoked = <<>> /\ between = <<>> /\ intervened = <<>>
    /\ hist = <<>> /\ ncalls = 0

Init == SharedInit /\ ForwardIdle /\ ResetIdle /\ FrameIdle
Next == SharedNext /\ UNCHANGED <<forwardVars, resetVars, frameVars>>
Spec == Init /\ [][Next]_vars

(***************************************************************************)
(* Calls through the shared adapter, one at a time                         *)
(***************************************************************************)
\* one adapter method, run with no other caller: the results it can give
ArcMethodSeq(st, m) ==
    IF st.poisoned
    THEN {[st |-> st, res |-> Err(FromPoisonError)]}
    ELSE {[st  |-> [st EXCEPT !.chan = TExec(st.chan, m, oc).chan],
           res |-> TExec(st.chan, m, oc).res] : oc \in Outcomes(m)}
         \cup {[st |-> [st EXCEPT !.poisoned = TRUE], res |-> Panic]}

\* one call of a caller, run with no other caller
ArcCallSeq(st, c) ==
    IF c.op = "read_write_bytes"
    THEN UNION {IF w.res.ok
                THEN ArcMethodSeq(w.st, RWStep(c.args,
                                   <<[call |-> FirstMethod(c), res |-> w.res]>>).next)
                ELSE {w}
                : w \in ArcMethodSeq(st, FirstMethod(c))}
    ELSE ArcMethodSeq(st, c)

RECURSIVE LinFrom(_, _)
\* some order of the remaining calls, each thread's in its own order, gives
\* every call the result its caller saw
LinFrom(st, qs) ==
    IF \A t \in Threads : qs[t] = <<>> THEN TRUE
    ELSE \E t \in Threads :
            /\ qs[t] # <<>>
            /\ \E o \in ArcCallSeq(st, Head(qs[t]).call) :
                  /\ o.res = Head(qs[t]).res
                  /\ LinFrom(o.st, [qs EXCEPT ![t] = Tail(@)])

Linearizable ==
    LinFrom([chan |-> chan0, poisoned |-> FALSE],
            [t \in Threads |-> SelectSeq(hist, LAMBDA e : e.t = t)])

(***************************************************************************)
(* Claims on the shared adapter                                            *)
(***************************************************************************)
\* C1: the results all callers observe through Arc<Mutex<T>> equal those of
\* running their calls one at a time in some order, and no other caller's
\* write_bytes or read_bytes reaches T between the write and the read of a
\* caller's read_write_bytes.
C1_CallsSerializable ==
    /\ \A t \in Threads : ~intervened[t]
    /\ Quiescent => Linearizable

\* C2: at most one thread is inside a method of T, and it holds the lock.
C2_OneThreadInsideT ==
    /\ Cardinality({t \in Threads : pc[t] = "exec"}) <= 1
    /\ \A t \in Threads : pc[t] = "exec" => holder = t

\* a thread is inside T while another waits for the lock
C2_Witness ==
    \E t, u \in Threads : t # u /\ pc[t] = "exec" /\ pc[u] = "lock"

\* C4: a thread whose adapter method has returned, with a value or with an
\* error, does not hold the lock; the lock is held only by a thread that is
\* inside the adapter method.
C4_LockReleasedOnReturn ==
    /\ \A t \in Threads : pc[t] \in {"ret", "idle", "lock", "dead"} => holder # t
    /\ holder # 0 => pc[holder] \in {"exec", "unlock"}

\* T returned an error to one thread and another thread has since taken the lock
C4_Witness ==
    \E t, u \in Threads :
        /\ t # u
        /\ pc[t] \in {"ret", "idle"} /\ invoked[t] /\ ~res[t].ok
        /\ holder = u /\ pc[u] = "exec"

\* C5: while the lock is poisoned no thread enters T, and a method that
\* returns without having entered T returns a ChannelError.
C5_PoisonedLockGivesChannelError ==
    /\ poisoned => \A t \in Threads : pc[t] # "exec"
    /\ \A t \in Threads :
          (pc[t] \in {"unlock", "ret"} /\ ~invoked[t]) =>
              /\ poisoned
              /\ res[t] = Err(FromPoisonError)

\* a caller got a ChannelError from a poisoned lock and was not stopped
C5_Witness ==
    \E t \in Threads :
        /\ poisoned /\ pc[t] = "idle" /\ outer[t] # NoCall
        /\ ~invoked[t] /\ ret[t] = Err(FromPoisonError)

\* C9: a completed read_write_bytes(addr, buf, wt, rt) has called
\* write_bytes(addr, buf, wt) once and, only when that succeeded,
\* read_bytes(rt) once, and has returned the result of the last of them.
C9_DefaultReadWrite ==
    \A t \in Threads :
        outer[t].op = "read_write_bytes" =>
            LET a == outer[t].args
                d == sub[t]
            IN  /\ Len(d) <= 2
                /\ Len(d) >= 1 =>
                     /\ d[1].call.op = "write_bytes"
                     /\ d[1].call.args = <<a[1], a[2], a[3]>>
                /\ Len(d) = 2 =>
                     /\ d[1].res.ok
                     /\ d[2].call.op = "read_bytes"
                     /\ d[2].call.args = <<a[4]>>
                /\ pc[t] = "idle" =>
                     /\ Len(d) = (IF d[1].res.ok THEN 2 ELSE 1)
                     /\ ret[t] = d[Len(d)].res

\* a read_write_bytes whose write timed out on an open channel has returned
C9_Witness ==
    \E t \in Threads :
        /\ outer[t].op = "read_write_bytes" /\ pc[t] = "idle"
        /\ Len(sub[t]) = 1 /\ ret[t] = Err("WriteTimeout")

(***************************************************************************)
(* One caller, the same calls made on T itself, through Box<T> and through *)
(* Arc<Mutex<T>>                                                           *)
(***************************************************************************)
Handles == {"direct", "box", "arc"}

\* T::op(self, args) called on T itself
Direct_method(ch, c, oc) ==
    LET r == TExec(ch, c, oc) IN [chan |-> r.chan, res |-> r.res, trace |-> <<c>>]

\* a Box method that drops T's error
Box_method_DropsError(ch, c, oc) ==
    LET r == TExec(ch, c, oc)
    IN  [chan |-> r.chan, res |-> IF r.res.ok THEN r.res ELSE Ok(Unit),
         trace |-> <<c>>]

\* impl ... for Box<T>:  T::op(self, args)
Box_method(ch, c, oc) ==
    LET r == TExec(ch, c, oc) IN [chan |-> r.chan, res |-> r.res, trace |-> <<c>>]

\* impl ... for Arc<Mutex<T>> with no other caller: the lock is free and no
\* holder has panicked, so lock() returns the guard
Arc_method(ch, c, oc) ==
    LET r == TExec(ch, c, oc)
    IN  [chan |-> r.chan, res |-> ArcForward(r.res), trace |-> <<c>>]

\* a method the handle's type defines itself
Method(h, ch, c, oc) ==
    CASE h = "direct" -> Direct_method(ch, c, oc)
      [] h = "box"    -> Box_method(ch, c, oc)
      [] h = "arc"    -> Arc_method(ch, c, oc)

\* read_write_bytes after self.read_bytes returned r
RWAfterRead(args, first, w, second, r) ==
    [chan |-> r.chan,
     res |-> RWStep(args, <<[call |-> first, res |-> w.res],
                            [call |-> second, res |-> r.res]>>).ret,
     trace |-> w.trace \o r.trace]

\* read_write_bytes after self.write_bytes returned w: `?` returns its
\* error, otherwise self.read_bytes is called
RWAfterWrite(h, args, first, w, step) ==
    IF step.fin
    THEN [chan |-> w.chan, res |-> step.ret, trace |-> w.trace]
    ELSE RWAfterRead(args, first, w, step.next,
                     Method(h, w.chan, step.next, "ok"))

RWWritten(h, args, first, w) ==
    RWAfterWrite(h, args, first, w,
                 RWStep(args, <<[call |-> first, res |-> w.res]>>))

RWStart(h, ch, args, oc, first) ==
    RWWritten(h, args, first, Method(h, ch, first, oc))

\* the provided read_write_bytes run to its end with self = the handle
ProvidedRW(h, ch, args, oc) ==
    RWStart(h, ch, args, oc, RWStep(args, <<>>).next)

\* T has read_write_bytes of its own or inherits the provided one
DirectCall(ch, c, oc) ==
    IF c.op = "read_write_bytes" /\ ~ownRW
    THEN ProvidedRW("direct", ch, c.args, oc)
    ELSE Direct_method(ch, c, oc)

\* Box<T> and Arc<Mutex<T>> define every method but read_write_bytes
BoxCall(ch, c, oc) ==
    IF c.op = "read_write_bytes"
    THEN ProvidedRW("box", ch, c.args, oc)
    ELSE Box_method(ch, c, oc)

ArcCall(ch, c, oc) ==
    IF c.op = "read_write_bytes"
    THEN ProvidedRW("arc", ch, c.args, oc)
    ELSE Arc_method(ch, c, oc)

HandleCall(h, ch, c, oc) ==
    CASE h = "direct" -> DirectCall(ch, c, oc)
      [] h = "box"    -> BoxCall(ch, c, oc)
      [] h = "arc"    -> ArcCall(ch, c, oc)

FApply(c, out) ==
    /\ fcall' = c
    /\ fpre' = fchan
    /\ fwasOpened' = fopened
    /\ fchan' = [h \in Handles |-> out[h].chan]
    /\ fres' = [h \in Handles |-> out[h].res]
    /\ ftrace' = [h \in Handles |-> out[h].trace]
    /\ fopened' = [h \in Handles |->
            CASE c.op = "open" /\ out[h].res.ok -> TRUE
              [] c.op = "close"                 -> FALSE
              [] OTHER                          -> fopened[h]]
    /\ UNCHANGED <<ownRW, sharedVars, resetVars, frameVars>>

\* the caller makes call c on every handle; the transport behaves alike
FDo(c) ==
    \E oc \in Outcomes(c) :
        FApply(c, [h \in Handles |-> HandleCall(h, fchan[h], c, oc)])

FOpen     == FDo(Call("open", <<>>))
FClose    == FDo(Call("close", <<>>))
FClearRx  == FDo(Call("clear_rx_buffer", <<>>))
FClearTx  == FDo(Call("clear_tx_buffer", <<>>))
FSetIds   == kind = "isotp" /\ \E s \in SendIds, r \in RecvIds :
                 FDo(Call("set_ids", <<s, r>>))
FSetIsoCfg == kind = "isotp" /\ \E c \in IsoCfgs : FDo(Call("set_iso_tp_cfg", <<c>>))
FRead     == kind = "isotp" /\ \E to \in Timeouts : FDo(Call("read_bytes", <<to>>))
FWrite    == kind = "isotp" /\ \E a \in Addrs, b \in Bufs, to \in Timeouts :
                 FDo(Call("write_bytes", <<a, b, to>>))
FReadWrite == kind = "isotp" /\ \E a \in Addrs, b \in Bufs, to \in RWTimeouts :
                 FDo(Call("read_write_bytes", <<a, b, to[1], to[2]>>))
FSetCanCfg == kind = "can" /\ \E c \in CanCfgs : FDo(Call("set_can_cfg", c))
FReadPackets == kind = "can" /\ \E m \in Maxes, to \in Timeouts :
                 FDo(Call("read_packets", <<m, to>>))
FWritePackets == kind = "can" /\ \E p \in Packets, to \in Timeouts :
                 FDo(Call("write_packets", <<p, to>>))

ForwardNext ==
    \/ FOpen \/ FClose \/ FClearRx \/ FClearTx \/ FSetIds \/ FSetIsoCfg
    \/ FRead \/ FWrite \/ FReadWrite \/ FSetCanCfg \/ FReadPackets
    \/ FWritePackets

ForwardInit ==
    /\ kind \in {"isotp", "can"}
    /\ chan0 = InitChan /\ chan = InitChan
    /\ holder = 0 /\ poisoned = FALSE
    /\ pc = <<>> /\ outer = <<>> /\ cur = <<>> /\ res = <<>> /\ sub = <<>>
    /\ ret = <<>> /\ invoked = <<>> /\ between = <<>> /\ intervened = <<>>
    /\ hist = <<>> /\ ncalls = 0
    /\ ownRW \in BOOLEAN
    /\ fchan = [h \in Handles |-> InitChan]
    /\ fpre = [h \in Handles |-> InitChan]
    /\ fopened = [h \in Handles |-> FALSE]
    /\ fwasOpened = [h \in Handles |-> FALSE]
    /\ fres = [h \in Handles |-> NoRes]
    /\ ftrace = [h \in Handles |-> <<>>]
    /\ fcall = NoCall
    /\ ResetIdle /\ FrameIdle

SpecForward == ForwardInit /\ [][ForwardNext]_vars

SameTrace(a, b) ==
    /\ Len(a) = Len(b)
    /\ \A i \in 1..Len(a) : a[i].op = b[i].op /\ a[i].args = b[i].args

\* C3: every call made through Box<T> or through Arc<Mutex<T>> returns what
\* the same call made on T returns and invokes the same methods of T with
\* the same arguments, read_write_bytes of a T that supplies its own included.
C3_AdaptersForwardEveryCall ==
    \A h \in {"box", "arc"} :
        /\ fres[h] = fres["direct"]
        /\ SameTrace(ftrace[h], ftrace["direct"])

MaxRespLen == 3

U8 == 0..255

\* DiagServerResult<T>
DOk(v)        == [ok |-> TRUE,  err |-> "", val |-> v,    code |-> 0, def |-> <<>>]
DErr(e, c, d) == [ok |-> FALSE, err |-> e,  val |-> <<>>, code |-> c, def |-> d]

\* lookup_uds_nrc(code), left uninterpreted
lookup_uds_nrc(code) == <<"lookup_uds_nrc", code>>

ResetTypes ==
    {[tag |-> g, x |-> 0] : g \in {"HardReset", "KeyOffReset", "SoftReset",
                                   "EnableRapidPowerShutDown",
                                   "DisableRapidPowerShutDown"}}
    \cup {[tag |-> "Other", x |-> b] : b \in U8}

RT(g) == [tag |-> g, x |-> 0]

\* a conversion with the codes of KeyOffReset and SoftReset exchanged
ResetTypeToU8_Swapped(from) ==
    CASE from.tag = "HardReset"                 -> 1
      [] from.tag = "KeyOffReset"               -> 3
      [] from.tag = "SoftReset"                 -> 2
      [] from.tag = "EnableRapidPowerShutDown"  -> 4
      [] from.tag = "DisableRapidPowerShutDown" -> 5
      [] from.tag = "Other"                     -> from.x

\* impl From<ResetType> for u8
ResetTypeToU8(from) ==
    CASE from.tag = "HardReset"                 -> 1
      [] from.tag = "KeyOffReset"               -> 2
      [] from.tag = "SoftReset"                 -> 3
      [] from.tag = "EnableRapidPowerShutDown"  -> 4
      [] from.tag = "DisableRapidPowerShutDown" -> 5
      [] from.tag = "Other"                     -> from.x

\* UDSCommand::ECUReset as a byte
ECUReset == 17

\* the request execute_command_with_response(cmd, args) hands to the channel
Request(cmd, args) == <<cmd>> \o args

\* what execute_command_with_response can give back: an error, or the
\* bytes of a positive response
RespBytes == {1, 4, 5, 81, 255}
RECURSIVE SeqsUpTo(_, _)
SeqsUpTo(S, n) ==
    IF n = 0 THEN {<<>>}
    ELSE LET shorter == SeqsUpTo(S, n - 1)
         IN  shorter \cup {Append(q, b) : q \in shorter, b \in S}
ExecOutcomes ==
    {DOk(r) : r \in SeqsUpTo(RespBytes, MaxRespLen)}
    \cup {DErr("ECUError", 18, lookup_uds_nrc(18)),
          DErr("ChannelError", 0, <<>>)}

\* .map(|_| ())
MapToUnit(r) == IF r.ok THEN DOk(Unit) ELSE r

ecu_hard_reset(out) ==
    [sent |-> <<Request(ECUReset, <<ResetTypeToU8(RT("HardReset"))>>)>>,
     result |-> MapToUnit(out)]

ecu_key_off_on_reset(out) ==
    [sent |-> <<Request(ECUReset, <<ResetTypeToU8(RT("KeyOffReset"))>>)>>,
     result |-> MapToUnit(out)]

ecu_soft_reset(out) ==
    [sent |-> <<Request(ECUReset, <<ResetTypeToU8(RT("SoftReset"))>>)>>,
     result |-> MapToUnit(out)]

disable_rapid_power_shutdown(out) ==
    [sent |-> <<Request(ECUReset,
                        <<ResetTypeToU8(RT("DisableRapidPowerShutDown"))>>)>>,
     result |-> MapToUnit(out)]

\* an enable_rapid_power_shutdown that returns the third byte unexamined
enable_rapid_power_shutdown_NoSentinel(out) ==
    [sent |-> <<Request(ECUReset,
                        <<ResetTypeToU8(RT("EnableRapidPowerShutDown"))>>)>>,
     result |->
        IF ~out.ok THEN out
        ELSE IF Len(out.val) >= 3 THEN DOk(<<out.val[3]>>)
        ELSE DErr("InvalidResponseLength", 0, <<>>)]

\* res.get(2): index 2 of the response, counted from 0
enable_rapid_power_shutdown(out) ==
    [sent |-> <<Request(ECUReset,
                        <<ResetTypeToU8(RT("EnableRapidPowerShutDown"))>>)>>,
     result |->
        IF ~out.ok THEN out
        ELSE IF Len(out.val) >= 3 /\ out.val[3] = 255
        THEN DErr("ECUError", 16, lookup_uds_nrc(16))
        ELSE IF Len(out.val) >= 3 THEN DOk(<<out.val[3]>>)
        ELSE DErr("InvalidResponseLength", 0, <<>>)]

ResetStep(op, r, out) ==
    /\ lastOp' = op
    /\ exec' = out
    /\ sent' = r.sent
    /\ result' = r.result
    /\ wire' = <<>>
    /\ UNCHANGED <<sharedVars, forwardVars, frameVars>>

EcuHardReset     == \E out \in ExecOutcomes :
                        ResetStep("ecu_hard_reset", ecu_hard_reset(out), out)
EcuKeyOffOnReset == \E out \in ExecOutcomes :
                        ResetStep("ecu_key_off_on_reset", ecu_key_off_on_reset(out), out)
EcuSoftReset     == \E out \in ExecOutcomes :
                        ResetStep("ecu_soft_reset", ecu_soft_reset(out), out)
EnableRapidPowerShutdown ==
    \E out \in ExecOutcomes :
        ResetStep("enable_rapid_power_shutdown", enable_rapid_power_shutdown(out), out)
DisableRapidPowerShutdown ==
    \E out \in ExecOutcomes :
        ResetStep("disable_rapid_power_shutdown", disable_rapid_power_shutdown(out), out)

\* u8::from(reset_type)
Convert ==
    \E rt \in ResetTypes :
        /\ wire' = <<rt, ResetTypeToU8(rt)>>
        /\ lastOp' = "from" /\ sent' = <<>> /\ exec' = <<>> /\ result' = <<>>
        /\ UNCHANGED <<sharedVars, forwardVars, frameVars>>

ResetNext ==
    \/ EcuHardReset \/ EcuKeyOffOnReset \/ EcuSoftReset
    \/ EnableRapidPowerShutdown \/ DisableRapidPowerShutdown \/ Convert

ResetInit == SharedIdle /\ ForwardIdle /\ ResetIdle /\ FrameIdle

SpecReset == ResetInit /\ [][ResetNext]_vars

\* C7: enable_rapid_power_shutdown sends [0x11, 0x04]; a failed execution is
\* returned unchanged; a response of fewer than 3 bytes gives the
\* invalid-response-length error; a third byte 0xFF gives an ECU error with
\* code 0x10; any other third byte b gives Ok(b); Ok(0xFF) is never returned.
C7_EnableRapidPowerShutdown ==
    lastOp = "enable_rapid_power_shutdown" =>
        /\ sent = << <<17, 4>> >>
        /\ ~exec.ok => result = exec
        /\ (exec.ok /\ Len(exec.val) < 3) =>
              (~result.ok /\ result.err = "InvalidResponseLength")
        /\ (exec.ok /\ Len(exec.val) >= 3 /\ exec.val[3] = 255) =>
              (~result.ok /\ result.err = "ECUError" /\ result.code = 16)
        /\ (exec.ok /\ Len(exec.val) >= 3 /\ exec.val[3] # 255) =>
              result = DOk(<<exec.val[3]>>)
        /\ result # DOk(<<255>>)

\* the response [0x51, 0x04, 0xFF] was turned into the ECU error 0x10
C7_Witness ==
    /\ lastOp = "enable_rapid_power_shutdown"
    /\ exec = DOk(<<81, 4, 255>>)
    /\ ~result.ok /\ result.code = 16

ResetCodeOf(op) ==
    CASE op = "ecu_hard_reset"               -> 1
      [] op = "ecu_key_off_on_reset"         -> 2
      [] op = "ecu_soft_reset"               -> 3
      [] op = "disable_rapid_power_shutdown" -> 5

WireCodeOf(tag, x) ==
    CASE tag = "HardReset"                 -> 1
      [] tag = "KeyOffReset"               -> 2
      [] tag = "SoftReset"                 -> 3
      [] tag = "EnableRapidPowerShutDown"  -> 4
      [] tag = "DisableRapidPowerShutDown" -> 5
      [] tag = "Other"                     -> x

\* C8: each of the four reset operations executes one command, the request
\* 0x11 followed by the wire code of its ResetType; a positive response of
\* any content gives Ok(()), a failed execution gives that error; the wire
\* codes are 0x01..0x05 and Other(b) = b.
C8_ResetOperations ==
    /\ lastOp \in {"ecu_hard_reset", "ecu_key_off_on_reset", "ecu_soft_reset",
                   "disable_rapid_power_shutdown"} =>
          /\ sent = << <<17, ResetCodeOf(lastOp)>> >>
          /\ exec.ok => result = DOk(Unit)
          /\ ~exec.ok => result = exec
    /\ wire # <<>> => wire[2] = WireCodeOf(wire[1].tag, wire[1].x)

\* a hard reset answered [0x51, 0x01] has returned Ok(())
C8_Witness ==
    /\ lastOp = "ecu_hard_reset"
    /\ sent = << <<17, 1>> >>
    /\ exec = DOk(<<81, 1>>)
    /\ result = DOk(Unit)

(***************************************************************************)
(* CanFrame (src/src/channel.rs)                                           *)
(***************************************************************************)
MaxDataLen == 9

\* [u8; 8]
CanDataSize == 8

\* 0x7FF, the largest 11-bit identifier
MaxStandardId == 2047

Min(a, b) == IF a < b THEN a ELSE b

FrameIds  == {2047, 2048}
FillBytes == {16, 160}
\* the input of length n whose i-th byte is b + i
Pattern(b, n) == [i \in 1..n |-> (b + i) % 256]
DataInputs == {Pattern(b, n) : b \in FillBytes, n \in 0..MaxDataLen}

\* tmp[0..max].copy_from_slice(&data[0..max])
CopyFromSlice(dst, src, max) ==
    [i \in 1..CanDataSize |-> IF i <= max THEN src[i] ELSE dst[i]]

\* CanFrame::new
CanFrame_new(id, data, is_ext) ==
    LET max == Min(CanDataSize, Len(data))
        tmp == [i \in 1..CanDataSize |-> 0]
    IN  [id |-> id, dlc |-> max % 256, data |-> CopyFromSlice(tmp, data, max),
         ext |-> is_ext]

\* a set_data that never shortens the frame
set_data_KeepsLonger(f, data) ==
    LET max == Min(CanDataSize, Len(data))
    IN  [f EXCEPT !.data = CopyFromSlice(f.data, data, max),
                  !.dlc = IF max > f.dlc THEN max % 256 ELSE f.dlc]

\* Packet::set_data
set_data(f, data) ==
    LET max == Min(CanDataSize, Len(data))
    IN  [f EXCEPT !.data = CopyFromSlice(f.data, data, max), !.dlc = max % 256]

\* Packet::set_address
set_address(f, address) == [f EXCEPT !.id = address]

\* Packet::get_data: &self.data[0..self.dlc]
get_data(f) == SubSeq(f.data, 1, f.dlc)

\* Packet::get_address
get_address(f) == f.id

\* CanFrame::is_extended
is_extended(f) == f.ext

New ==
    \E id \in FrameIds, data \in DataInputs, is_ext \in BOOLEAN :
        /\ frame' = CanFrame_new(id, data, is_ext)
        /\ lastData' = data
        /\ isExt' = is_ext
        /\ frameOp' = "new"
        /\ prevFrame' = <<>>
        /\ UNCHANGED <<sharedVars, forwardVars, resetVars>>

SetData ==
    \E data \in DataInputs :
        /\ frame' = set_data(frame, data)
        /\ lastData' = data
        /\ frameOp' = "set_data"
        /\ prevFrame' = [dlc |-> frame.dlc]
        /\ UNCHANGED <<isExt, sharedVars, forwardVars, resetVars>>

SetAddress ==
    \E address \in FrameIds :
        /\ frame' = set_address(frame, address)
        /\ frameOp' = "set_address"
        /\ prevFrame' = frame
        /\ UNCHANGED <<lastData, isExt, sharedVars, forwardVars, resetVars>>

FrameNext == New \/ SetData \/ SetAddress

FrameInit ==
    /\ SharedIdle /\ ForwardIdle /\ ResetIdle
    /\ \E id \in FrameIds, data \in DataInputs, is_ext \in BOOLEAN :
          /\ frame = CanFrame_new(id, data, is_ext)
          /\ lastData = data
          /\ isExt = is_ext
    /\ prevFrame = <<>>
    /\ frameOp = "new"

SpecFrame == FrameInit /\ [][FrameNext]_vars

\* C10: the data length is at most 8; get_data is the first min(8, n) bytes
\* of the most recent data input, of length n; set_address leaves the data,
\* its length and the extended flag as they were.
C10_FrameDataClamped ==
    /\ frame.dlc <= 8
    /\ Len(get_data(frame)) = Min(8, Len(lastData))
    /\ \A i \in 1..Len(get_data(frame)) : get_data(frame)[i] = lastData[i]
    /\ frameOp = "set_address" =>
          /\ frame.dlc = prevFrame.dlc
          /\ frame.data = prevFrame.data
          /\ frame.ext = prevFrame.ext

\* a 3-byte set_data on a frame that held 8 bytes of a 9-byte input
C10_Witness ==
    /\ frameOp = "set_data"
    /\ prevFrame.dlc = 8
    /\ Len(lastData) = 3
    /\ frame.data[4] # 0
    /\ get_data(frame) = lastData

\* C11: a frame whose id is above 0x7FF reports extended addressing whatever
\* is_ext was given to CanFrame::new; a frame whose id is at most 0x7FF
\* reports the is_ext it was constructed with.
C11_ExtendedAboveStandardIds ==
    /\ get_address(frame) > MaxStandardId => is_extended(frame) = TRUE
    /\ get_address(frame) <= MaxStandardId => is_extended(frame) = isExt

=============================================================================
